---- MODULE Spec2Model ----
(***************************************************************************)
(* Model of the vault command router (src-tauri/src/ipc_router_temp.rs):   *)
(* open_vault, send_to_sidecar, close_vault and get_current_vault_info,    *)
(* running as concurrent asynchronous commands over the window registry    *)
(* (WindowManager) and the sidecar handle map (SidecarManager).            *)
(*                                                                         *)
(* The router is translated from its source.  WindowManager,               *)
(* SidecarManager and DependencyChecker are only called by the router; the *)
(* operations the router calls on them are modelled from the design        *)
(* document (Vault Session Registry, Sidecar Supervisor, Dependency        *)
(* Preflight).                                                             *)
(***************************************************************************)
EXTENDS Integers, FiniteSets, Sequences, Bags, TLC

\* ---------------------------------------------------------------- bounds
MaxInFlight == 2
MaxWindows == 2

Tokens == 1..MaxInFlight
WindowIds == 1..MaxWindows
Ports == 1..MaxWindows
Paths == {"/vaults/a"}
Commands == {"ping"}

\* ------------------------------------------------------------- constants
NoWindow == 0
NoPort == 0
NoToken == 0
NoVault == "-"
NoValue == "-"

\* Error strings of the router (the prefix before the cause).
ErrPreflight == "Failed to install dependencies"
ErrWindow == "Failed to create window"
ErrSpawn == "Failed to spawn sidecar"
ErrTerminate == "Failed to terminate sidecar"
ErrSendNoSidecar == "Sidecar not found for window"
ErrVaultNotFound == "Vault not found for this window"
ErrInfoNoSidecar == "Sidecar not found for this window"

\* The value send_to_sidecar builds for its Ok result.
Placeholder == "status:pending"

\* The response the worker would produce for a request.
WorkerResponse(cmd) == "result:" \o cmd

\* GatewayError::Timeout, the error of a call whose worker does not answer.
ErrTimeout == "Timeout"

VARIABLES
  windows,     \* window registry: window_id -> vault_path (NoVault = no entry)
  nextWin,     \* next fresh window_id
  handles,     \* sidecar handle map: window_id -> [state, port, owner]
  portsInUse,  \* port pool: the ports allocated and not yet released
  procs,       \* live worker processes, <<window_id, port>>
  zombies,     \* worker processes that exited on their own, not yet reaped
  calls,       \* the commands in flight, a bag of [pc, op, win, path, sub, tok]
  ret,         \* the value the command that returned in the last step gave its caller
  doubleFree,  \* history: some port was released while not allocated
  spawnFailed, \* history: windows whose open_vault failed at the spawn step
  opened       \* history: what open_vault returned for a window, while no
               \* close_vault for it has started and its worker has not exited

vars == <<windows, nextWin, handles, portsInUse, procs, zombies, calls, ret, doubleFree,
          spawnFailed, opened>>

NoHandle == [state |-> "Absent", port |-> NoPort, owner |-> NoToken]
DeadHandle == [state |-> "Dead", port |-> NoPort, owner |-> NoToken]

\* A command in flight: where it is suspended (pc), which command it is
\* (op), its window and vault path, the result of the supervisor call it
\* awaited (sub), and for a spawn the identity of the handle it inserted;
\* cmd is the command of a send_to_sidecar.
\* lock names the registry mutex whose guard the command still holds where
\* it is suspended (NoValue: none).
\* was is history for close_vault: what the registries held for the window
\* when the command was invoked.
Call(pc, op, w, path, sub, tok) ==
  [pc |-> pc, op |-> op, win |-> w, path |-> path, sub |-> sub, tok |-> tok,
   cmd |-> NoValue, lock |-> NoValue, was |-> NoValue]

\* What a command returned: op and win name the call, res is "Ok" or the
\* error, path/port/val are the fields of the Ok value; was is the call's.
Result(op, w, res, path, port, val) ==
  [op |-> op, win |-> w, res |-> res, path |-> path, port |-> port, val |-> val,
   was |-> NoValue]

NoRet == Result("none", NoWindow, NoValue, NoVault, NoPort, NoValue)

\* History mark: what open_vault returned for the window no longer counts.
Void == Result("void", NoWindow, NoValue, NoVault, NoPort, NoValue)

Init ==
  /\ windows = [w \in WindowIds |-> NoVault]
  /\ nextWin = 1
  /\ handles = [w \in WindowIds |-> NoHandle]
  /\ portsInUse = {}
  /\ procs = {}
  /\ zombies = {}
  /\ calls = EmptyBag
  /\ ret = NoRet
  /\ doubleFree = FALSE
  /\ spawnFailed = {}
  /\ opened = [w \in WindowIds |-> NoRet]

InFlight == BagToSet(calls)

\* The front-end can invoke a command while fewer than MaxInFlight run.
CanCall == BagCardinality(calls) < MaxInFlight

Started(c) == calls (+) SetToBag({c})
Returned(c) == calls (-) SetToBag({c})
Stepped(c, d) == (calls (-) SetToBag({c})) (+) SetToBag({d})

\* The mutual-exclusion boundaries: window_manager's Mutex and the one
\* around the handle map and the port pool.  A step takes the lock, works
\* and drops the guard; the lock is taken while a suspended command holds it.
WindowLockFree == \A c \in InFlight : c.lock # "windows"
SidecarLockFree == \A c \in InFlight : c.lock # "sidecars"

\* ------------------------------------------------ Vault Session Registry
\* vault_path_of / get_vault_path: read-only lookup.
GetVaultPath(wins, w) == wins[w]

\* remove_window: deletes the entry, no-op when absent.
RemoveWindow(wins, w) == [wins EXCEPT ![w] = NoVault]

\* History: an open_vault for w is still running; w is an open window (its
\* open_vault has returned and its entry is there); or neither registry
\* holds anything for w.
Opening(w) == \E c \in InFlight : c.op = "open" /\ c.win = w

WindowWas(w) ==
  IF Opening(w) THEN "opening"
  ELSE IF windows[w] # NoVault THEN "open"
  ELSE IF handles[w].state = "Absent" THEN "absent"
  ELSE "orphan"

\* History for send_to_sidecar: whether the window had a Ready worker when
\* the command was invoked.
SidecarWas(w) == IF handles[w].state = "Ready" THEN "ready" ELSE NoValue

\* ---------------------------------------------------- Sidecar Supervisor
\* A live handle: Starting or Ready.
Live(h) == h.state \in {"Starting", "Ready"}

\* Slip: the port of any handle that still has one.
EndpointOf_AnyState(hs, w) == hs[w].port

\* endpoint_of / get_ws_port: the port only for a handle in Ready.
EndpointOf(hs, w) == IF hs[w].state = "Ready" THEN hs[w].port ELSE NoPort

\* Slip: the pool is not consulted.
FreePorts_Any(used) == Ports

\* Ports a spawn may take: those the pool has not handed out.
FreePorts(used) == Ports \ used

ReleasePort(used, p) == used \ {p}

\* ------------------------------------------------------ Router: open_vault
\* Step 1 fails: check_and_install(..).await.map_err(..)?
OpenVaultPreflightError(path) ==
  Result("open", NoWindow, ErrPreflight, path, NoPort, NoValue)

\* Step 2 fails: create_vault_window(..).map_err(..)?
OpenVaultWindowError(c) ==
  Result("open", NoWindow, ErrWindow, c.path, NoPort, NoValue)

\* Slip: the VaultInfo of open_vault is built without the port of the spawn.
OpenVaultResult_NoPort(c, sub, port) ==
  IF sub = "Ok" THEN Result("open", c.win, "Ok", c.path, NoPort, NoValue)
  ELSE Result("open", c.win, ErrSpawn, c.path, NoPort, NoValue)

\* Step 3 returns: spawn_sidecar(..).await.map_err(..)?  then
\* Ok(VaultInfo { window_label, vault_path, ws_port }).
OpenVaultResult(c, sub, port) ==
  IF sub = "Ok" THEN Result("open", c.win, "Ok", c.path, port, NoValue)
  ELSE Result("open", c.win, ErrSpawn, c.path, NoPort, NoValue)

\* What the caller of spawn gets: open_vault continues, a direct caller of
\* the supervisor receives the SpawnError or the port.
SpawnReturns(c, sub, port) ==
  IF c.op = "open" THEN OpenVaultResult(c, sub, port)
  ELSE Result("spawn", c.win, sub, c.path, port, NoValue)

SpawnFailedAfter(c, sub) ==
  IF c.op = "open" /\ sub # "Ok" THEN spawnFailed \cup {c.win} ELSE spawnFailed

\* History: the VaultInfo is recorded unless a close_vault for the window
\* started before open_vault returned.
OpenedAfter(c, port) ==
  IF c.op = "open" /\ opened[c.win] = NoRet
    THEN [opened EXCEPT ![c.win] = OpenVaultResult(c, "Ok", port)]
    ELSE opened

\* ================================================ Sidecar Supervisor: spawn
\* The identity of a newly inserted handle: one no spawn in flight holds.
FreshToken == CHOOSE k \in Tokens : \A c \in InFlight : c.tok # k

Mine(c, h) == h.state = "Starting" /\ h.owner = c.tok

\* Slip: the handle is inserted without looking for a running one.
SpawnInsert_NoDuplicateCheck(before, c) ==
  /\ \E p \in FreePorts(portsInUse) :
       /\ handles' = [handles EXCEPT ![c.win] = [state |-> "Starting", port |-> p, owner |-> FreshToken]]
       /\ portsInUse' = portsInUse \cup {p}
       /\ calls' = before (+) SetToBag({[c EXCEPT !.pc = "sp_launch", !.tok = FreshToken]})
       /\ ret' = NoRet
       /\ spawnFailed' = spawnFailed
  /\ UNCHANGED <<windows, nextWin, procs, zombies, doubleFree, opened>>

\* Steps 1-2: under the map's lock, reject a duplicate with AlreadyRunning,
\* else allocate an unused port and insert the handle in Starting.
\* before is the bag of the other commands in flight.
SpawnInsert(before, c) ==
  /\ SidecarLockFree
  /\ IF handles[c.win].state \in {"Starting", "Ready", "Terminating"}
       THEN /\ calls' = before
            /\ ret' = SpawnReturns(c, "AlreadyRunning", NoPort)
            /\ spawnFailed' = SpawnFailedAfter(c, "AlreadyRunning")
            /\ UNCHANGED <<handles, portsInUse>>
       ELSE \E p \in FreePorts(portsInUse) :
            /\ handles' = [handles EXCEPT ![c.win] = [state |-> "Starting", port |-> p, owner |-> FreshToken]]
            /\ portsInUse' = portsInUse \cup {p}
            /\ calls' = before (+) SetToBag({[c EXCEPT !.pc = "sp_launch", !.tok = FreshToken]})
            /\ ret' = NoRet
            /\ spawnFailed' = spawnFailed
  /\ UNCHANGED <<windows, nextWin, procs, zombies, doubleFree, opened>>

\* Step 3: launch the worker with the port, outside the lock.  A handle
\* that was terminated before the launch gets no process.
SpawnLaunch(c) ==
  LET h == handles[c.win] IN
  /\ c.pc = "sp_launch"
  /\ IF Mine(c, h)
       THEN /\ procs' = procs \cup {<<c.win, h.port>>}
            /\ calls' = Stepped(c, [c EXCEPT !.pc = "sp_wait"])
            /\ ret' = NoRet
            /\ spawnFailed' = spawnFailed
       ELSE /\ procs' = procs
            /\ calls' = Returned(c)
            /\ ret' = SpawnReturns(c, "ProcessExited", NoPort)
            /\ spawnFailed' = SpawnFailedAfter(c, "ProcessExited")
  /\ UNCHANGED <<windows, nextWin, handles, portsInUse, zombies, doubleFree, opened>>

\* Slip: a readiness signal is accepted whatever happened to the handle.
SpawnReady_LateSignal(c) ==
  LET h == handles[c.win] IN
  /\ SidecarLockFree
  /\ c.pc = "sp_wait"
  /\ h.state \in {"Starting", "Terminating"}
  /\ <<c.win, h.port>> \in procs
  /\ handles' = [handles EXCEPT ![c.win] = [h EXCEPT !.state = "Ready", !.owner = NoToken]]
  /\ calls' = Returned(c)
  /\ ret' = SpawnReturns(c, "Ok", h.port)
  /\ UNCHANGED <<windows, nextWin, portsInUse, procs, zombies, doubleFree, spawnFailed, opened>>

\* Step 4: the readiness signal arrives in time: Starting -> Ready.
SpawnReady(c) ==
  LET h == handles[c.win] IN
  /\ SidecarLockFree
  /\ c.pc = "sp_wait"
  /\ Mine(c, h)
  /\ <<c.win, h.port>> \in procs
  /\ handles' = [handles EXCEPT ![c.win] = [h EXCEPT !.state = "Ready", !.owner = NoToken]]
  /\ calls' = Returned(c)
  /\ ret' = SpawnReturns(c, "Ok", h.port)
  /\ opened' = OpenedAfter(c, h.port)
  /\ UNCHANGED <<windows, nextWin, portsInUse, procs, zombies, doubleFree, spawnFailed>>

\* Step 4: no readiness within the bound: kill the process, release the
\* port, Starting -> Dead, return Timeout.
SpawnTimeout(c) ==
  LET h == handles[c.win] IN
  /\ SidecarLockFree
  /\ c.pc = "sp_wait"
  /\ Mine(c, h)
  /\ procs' = procs \ {<<c.win, h.port>>}
  /\ zombies' = zombies \ {<<c.win, h.port>>}
  /\ doubleFree' = (doubleFree \/ h.port \notin portsInUse)
  /\ portsInUse' = ReleasePort(portsInUse, h.port)
  /\ handles' = [handles EXCEPT ![c.win] = DeadHandle]
  /\ calls' = Returned(c)
  /\ ret' = SpawnReturns(c, "Timeout", NoPort)
  /\ spawnFailed' = SpawnFailedAfter(c, "Timeout")
  /\ UNCHANGED <<windows, nextWin, opened>>

\* Step 4: the handle left Starting while the spawn waited (the process
\* exited and was reaped, or the window was terminated).
SpawnExited(c) ==
  LET h == handles[c.win] IN
  /\ c.pc = "sp_wait"
  /\ ~Mine(c, h)
  /\ calls' = Returned(c)
  /\ ret' = SpawnReturns(c, "ProcessExited", NoPort)
  /\ spawnFailed' = SpawnFailedAfter(c, "ProcessExited")
  /\ UNCHANGED <<windows, nextWin, handles, portsInUse, procs, zombies, doubleFree, opened>>

\* ============================================ Sidecar Supervisor: terminate
\* What the caller of terminate gets: close_vault continues with its step
\* 2, a direct caller of the supervisor receives ok or the TerminateError.
TerminateReturnsCall(before, c, sub) ==
  IF c.op = "close" THEN before (+) SetToBag({[c EXCEPT !.pc = "cv_remove", !.sub = sub]})
  ELSE before

TerminateReturnsRet(c, sub) ==
  IF c.op = "close" THEN NoRet
  ELSE Result("terminate", c.win, sub, NoVault, NoPort, NoValue)

\* First part: Ready|Starting -> Terminating and the shutdown signal; an
\* absent handle succeeds trivially, a Dead one is removed.
TerminateBegin(before, c) ==
  LET h == handles[c.win] IN
  /\ SidecarLockFree
  /\ IF h.state \in {"Starting", "Ready"}
       THEN /\ handles' = [handles EXCEPT ![c.win] = [h EXCEPT !.state = "Terminating", !.owner = NoToken]]
            /\ calls' = before (+) SetToBag({[c EXCEPT !.pc = "term_wait"]})
            /\ ret' = NoRet
       ELSE IF h.state = "Terminating"
       THEN /\ handles' = handles
            /\ calls' = before (+) SetToBag({[c EXCEPT !.pc = "term_wait"]})
            /\ ret' = NoRet
       ELSE /\ handles' = [handles EXCEPT ![c.win] = NoHandle]
            /\ calls' = TerminateReturnsCall(before, c, "Ok")
            /\ ret' = TerminateReturnsRet(c, "Ok")
  /\ UNCHANGED <<windows, nextWin, portsInUse, procs, zombies, doubleFree, spawnFailed>>
  /\ opened' = IF c.op = "close" THEN [opened EXCEPT ![c.win] = Void] ELSE opened

\* Slip: the terminate that waited releases the port it saw at its start
\* even when the reaper or another terminate finished the handle first.
TerminateFinish_ReleaseAlways(c) ==
  LET h == handles[c.win] IN
  /\ SidecarLockFree
  /\ c.pc = "term_wait"
  /\ procs' = procs \ {<<c.win, h.port>>}
  /\ zombies' = zombies \ {<<c.win, h.port>>}
  /\ doubleFree' = (doubleFree \/ h.port \notin portsInUse)
  /\ portsInUse' = ReleasePort(portsInUse, h.port)
  /\ handles' = [handles EXCEPT ![c.win] = NoHandle]
  /\ calls' = TerminateReturnsCall(Returned(c), c, "Ok")
  /\ ret' = TerminateReturnsRet(c, "Ok")
  /\ UNCHANGED <<windows, nextWin, spawnFailed, opened>>

\* Second part: after the grace period the process is gone (force-killed if
\* needed): release the port, Terminating -> Dead, remove the handle.  A
\* handle another terminate or the reaper already finished needs no more.
TerminateFinish(c) ==
  LET h == handles[c.win] IN
  /\ SidecarLockFree
  /\ c.pc = "term_wait"
  /\ IF h.state = "Terminating"
       THEN /\ procs' = procs \ {<<c.win, h.port>>}
            /\ zombies' = zombies \ {<<c.win, h.port>>}
            /\ doubleFree' = (doubleFree \/ h.port \notin portsInUse)
            /\ portsInUse' = ReleasePort(portsInUse, h.port)
            /\ handles' = [handles EXCEPT ![c.win] = NoHandle]
       ELSE /\ handles' = IF h.state = "Dead" THEN [handles EXCEPT ![c.win] = NoHandle] ELSE handles
            /\ UNCHANGED <<procs, zombies, doubleFree, portsInUse>>
  /\ calls' = TerminateReturnsCall(Returned(c), c, "Ok")
  /\ ret' = TerminateReturnsRet(c, "Ok")
  /\ UNCHANGED <<windows, nextWin, spawnFailed, opened>>

\* Second part: the process refuses to die: TerminateError; the handle
\* keeps its process and its port.
TerminateFail(c) ==
  LET h == handles[c.win] IN
  /\ c.pc = "term_wait"
  /\ h.state = "Terminating"
  /\ <<c.win, h.port>> \in procs
  /\ calls' = TerminateReturnsCall(Returned(c), c, "TerminateError")
  /\ ret' = TerminateReturnsRet(c, "TerminateError")
  /\ UNCHANGED <<windows, nextWin, handles, portsInUse, procs, zombies, doubleFree, spawnFailed, opened>>

\* A worker process exits on its own (crash or self-exit).
WorkerExit(w) ==
  \E p \in Ports :
    /\ <<w, p>> \in procs
    /\ procs' = procs \ {<<w, p>>}
    /\ zombies' = zombies \cup {<<w, p>>}
    /\ ret' = NoRet
    /\ UNCHANGED <<windows, nextWin, handles, portsInUse, calls, doubleFree, spawnFailed>>
    /\ opened' = IF opened[w].op = "open" THEN [opened EXCEPT ![w] = Void] ELSE opened

\* Background reaper: observes the exit of a worker, reaps the process, and
\* if the process is the one of the window's handle moves the handle to Dead
\* and releases its port.
Reap(w) ==
  \E p \in Ports :
    LET h == handles[w] IN
    /\ SidecarLockFree
    /\ <<w, p>> \in zombies
    /\ zombies' = zombies \ {<<w, p>>}
    /\ IF h.state \in {"Starting", "Ready", "Terminating"} /\ h.port = p
         THEN /\ doubleFree' = (doubleFree \/ h.port \notin portsInUse)
              /\ portsInUse' = ReleasePort(portsInUse, h.port)
              /\ handles' = [handles EXCEPT ![w] = DeadHandle]
         ELSE UNCHANGED <<doubleFree, portsInUse, handles>>
    /\ ret' = NoRet
    /\ UNCHANGED <<windows, nextWin, procs, calls, spawnFailed, opened>>

\* Slip: the window is created before the preflight outcome is looked at.
OpenVaultPreflight_WindowFirst(path, ok) ==
  /\ CanCall
  /\ IF ok
       THEN /\ calls' = Started(Call("ov_window", "open", NoWindow, path, NoValue, NoToken))
            /\ ret' = NoRet
            /\ UNCHANGED <<windows, nextWin>>
       ELSE /\ calls' = calls
            /\ ret' = OpenVaultPreflightError(path)
            /\ IF nextWin <= MaxWindows
                 THEN windows' = [windows EXCEPT ![nextWin] = path] /\ nextWin' = nextWin + 1
                 ELSE UNCHANGED <<windows, nextWin>>
  /\ UNCHANGED <<handles, portsInUse, procs, zombies, doubleFree, spawnFailed, opened>>

\* ====================================================== Router: open_vault
\* Step 1: DependencyChecker::check_and_install(&vault_path).await ... ?
\* ok is the outcome of the preflight.
OpenVaultPreflight(path, ok) ==
  /\ CanCall
  /\ IF ok
       THEN /\ calls' = Started(Call("ov_window", "open", NoWindow, path, NoValue, NoToken))
            /\ ret' = NoRet
       ELSE /\ calls' = calls
            /\ ret' = OpenVaultPreflightError(path)
  /\ UNCHANGED <<windows, nextWin, handles, portsInUse, procs, zombies, doubleFree, spawnFailed, opened>>

\* Slip: the guard of window_manager's lock is kept in a variable and is
\* still held while the command awaits spawn_sidecar.
OpenVaultCreateWindow_KeepLock(c, ok) ==
  /\ WindowLockFree
  /\ c.pc = "ov_window"
  /\ IF ok
       THEN /\ nextWin <= MaxWindows
            /\ windows' = [windows EXCEPT ![nextWin] = c.path]
            /\ nextWin' = nextWin + 1
            /\ calls' = Stepped(c, [c EXCEPT !.pc = "ov_spawn", !.win = nextWin, !.lock = "windows"])
            /\ ret' = NoRet
       ELSE /\ calls' = Returned(c)
            /\ ret' = OpenVaultWindowError(c)
            /\ UNCHANGED <<windows, nextWin>>
  /\ UNCHANGED <<handles, portsInUse, procs, zombies, doubleFree, spawnFailed, opened>>

\* Step 2: window_manager.lock().await.create_vault_window(..) ... ?
\* create_window allocates a fresh window_id and records the session, or
\* fails when the host UI layer refuses.
OpenVaultCreateWindow(c, ok) ==
  /\ WindowLockFree
  /\ c.pc = "ov_window"
  /\ IF ok
       THEN /\ nextWin <= MaxWindows
            /\ windows' = [windows EXCEPT ![nextWin] = c.path]
            /\ nextWin' = nextWin + 1
            /\ calls' = Stepped(c, [c EXCEPT !.pc = "ov_spawn", !.win = nextWin])
            /\ ret' = NoRet
       ELSE /\ calls' = Returned(c)
            /\ ret' = OpenVaultWindowError(c)
            /\ UNCHANGED <<windows, nextWin>>
  /\ UNCHANGED <<handles, portsInUse, procs, zombies, doubleFree, spawnFailed, opened>>

\* Step 3: sidecar_manager.spawn_sidecar(window_label, vault_path) is called.
OpenVaultSpawn(c) ==
  /\ c.pc = "ov_spawn"
  /\ SpawnInsert(Returned(c), c)

\* ================================================= Router: send_to_sidecar
\* get_ws_port(&window_label).await.ok_or_else(..)?  then the Ok value.
\* Slip: any handle in the map counts, whatever its state.
SendToSidecarResult_AnyHandle(hs, w, cmd) ==
  IF hs[w].state \in {"Absent", "Dead"}
    THEN Result("send", w, ErrSendNoSidecar, NoVault, NoPort, NoValue)
    ELSE Result("send", w, "Ok", NoVault, NoPort, Placeholder)

SendToSidecarResult(hs, w, cmd) ==
  LET port == EndpointOf(hs, w) IN
  IF port = NoPort THEN Result("send", w, ErrSendNoSidecar, NoVault, NoPort, NoValue)
  ELSE Result("send", w, "Ok", NoVault, NoPort, Placeholder)

\* The command is invoked and suspends at get_ws_port(..).await.
SendToSidecar(w, cmd) ==
  /\ CanCall
  /\ calls' = Started([Call("ss_port", "send", w, NoVault, NoValue, NoToken)
                          EXCEPT !.cmd = cmd, !.was = SidecarWas(w)])
  /\ ret' = NoRet
  /\ UNCHANGED <<windows, nextWin, handles, portsInUse, procs, zombies, doubleFree, spawnFailed, opened>>

\* Slip: the command waits for a port instead of failing when there is none.
SendToSidecarPort_WaitForPort(c) ==
  /\ c.pc = "ss_port"
  /\ EndpointOf(handles, c.win) # NoPort
  /\ calls' = Returned(c)
  /\ ret' = [SendToSidecarResult(handles, c.win, c.cmd) EXCEPT !.was = c.was]
  /\ UNCHANGED <<windows, nextWin, handles, portsInUse, procs, zombies, doubleFree, spawnFailed, opened>>

\* get_ws_port answers; the command returns at once, with the error or
\* with the value it builds.
SendToSidecarPort(c) ==
  /\ SidecarLockFree
  /\ c.pc = "ss_port"
  /\ calls' = Returned(c)
  /\ ret' = [SendToSidecarResult(handles, c.win, c.cmd) EXCEPT !.was = c.was]
  /\ UNCHANGED <<windows, nextWin, handles, portsInUse, procs, zombies, doubleFree, spawnFailed, opened>>

\* ==================================================== Router: close_vault
\* Slip: the window entry is removed before the worker is terminated.
CloseVaultTerminate_RemoveFirst(w) ==
  LET h == handles[w]
      c == [Call("cv_term", "close", w, NoVault, NoValue, NoToken) EXCEPT !.was = WindowWas(w)]
  IN
  /\ CanCall
  /\ windows' = RemoveWindow(windows, w)
  /\ IF h.state \in {"Starting", "Ready", "Terminating"}
       THEN /\ handles' = [handles EXCEPT ![w] = [h EXCEPT !.state = "Terminating", !.owner = NoToken]]
            /\ calls' = Started([c EXCEPT !.pc = "term_wait"])
       ELSE /\ handles' = [handles EXCEPT ![w] = NoHandle]
            /\ calls' = Started([c EXCEPT !.pc = "cv_remove", !.sub = "Ok"])
  /\ ret' = NoRet
  /\ UNCHANGED <<nextWin, portsInUse, procs, zombies, doubleFree, spawnFailed, opened>>

\* Step 1: sidecar_manager.terminate_sidecar(&window_label) is called.
CloseVaultTerminate(w) ==
  /\ CanCall
  /\ TerminateBegin(calls, [Call("cv_term", "close", w, NoVault, NoValue, NoToken)
                              EXCEPT !.was = WindowWas(w)])

\* Slip: the window entry is left in the registry.
CloseVaultRemove_KeepWindow(c) ==
  /\ c.pc = "cv_remove"
  /\ ret' = [Result("close", c.win, IF c.sub = "Ok" THEN "Ok" ELSE ErrTerminate,
                     NoVault, NoPort, NoValue) EXCEPT !.was = c.was]
  /\ calls' = Returned(c)
  /\ UNCHANGED <<windows, nextWin, handles, portsInUse, procs, zombies, doubleFree, spawnFailed, opened>>

\* Slip: closing a window the registry does not hold is reported as an error.
CloseVaultRemove_ErrIfAbsent(c) ==
  /\ c.pc = "cv_remove"
  /\ IF c.sub = "Ok" /\ windows[c.win] # NoVault
       THEN /\ windows' = RemoveWindow(windows, c.win)
            /\ ret' = [Result("close", c.win, "Ok", NoVault, NoPort, NoValue) EXCEPT !.was = c.was]
       ELSE /\ windows' = windows
            /\ ret' = [Result("close", c.win, IF c.sub = "Ok" THEN ErrVaultNotFound ELSE ErrTerminate,
                               NoVault, NoPort, NoValue) EXCEPT !.was = c.was]
  /\ calls' = Returned(c)
  /\ UNCHANGED <<nextWin, handles, portsInUse, procs, zombies, doubleFree, spawnFailed, opened>>

\* Slip: the registry is emptied instead of one entry being removed.
CloseVaultRemove_ClearsRegistry(c) ==
  /\ WindowLockFree
  /\ c.pc = "cv_remove"
  /\ IF c.sub = "Ok"
       THEN /\ windows' = [v \in WindowIds |-> NoVault]
            /\ ret' = [Result("close", c.win, "Ok", NoVault, NoPort, NoValue) EXCEPT !.was = c.was]
       ELSE /\ windows' = windows
            /\ ret' = [Result("close", c.win, ErrTerminate, NoVault, NoPort, NoValue) EXCEPT !.was = c.was]
  /\ calls' = Returned(c)
  /\ UNCHANGED <<nextWin, handles, portsInUse, procs, zombies, doubleFree, spawnFailed, opened>>

\* Step 1 returns: .await.map_err(..)?  then step 2:
\* window_manager.lock().await.remove_window(&window_label); Ok(()).
CloseVaultRemove(c) ==
  /\ WindowLockFree
  /\ c.pc = "cv_remove"
  /\ IF c.sub = "Ok"
       THEN /\ windows' = RemoveWindow(windows, c.win)
            /\ ret' = [Result("close", c.win, "Ok", NoVault, NoPort, NoValue) EXCEPT !.was = c.was]
       ELSE /\ windows' = windows
            /\ ret' = [Result("close", c.win, ErrTerminate, NoVault, NoPort, NoValue) EXCEPT !.was = c.was]
  /\ calls' = Returned(c)
  /\ UNCHANGED <<nextWin, handles, portsInUse, procs, zombies, doubleFree, spawnFailed, opened>>

\* ========================================= Router: get_current_vault_info
\* Slip: the lookup takes the entry out of the registry.
GetCurrentVaultInfoPath_Take(w) ==
  LET vp == GetVaultPath(windows, w) IN
  /\ WindowLockFree
  /\ CanCall
  /\ IF vp = NoVault
       THEN /\ calls' = calls
            /\ ret' = Result("info", w, ErrVaultNotFound, NoVault, NoPort, NoValue)
       ELSE /\ calls' = Started(Call("gi_port", "info", w, vp, NoValue, NoToken))
            /\ ret' = NoRet
  /\ windows' = RemoveWindow(windows, w)
  /\ UNCHANGED <<nextWin, handles, portsInUse, procs, zombies, doubleFree, spawnFailed, opened>>

\* window_manager.lock().await.get_vault_path(..).ok_or_else(..)?.clone()
GetCurrentVaultInfoPath(w) ==
  LET vp == GetVaultPath(windows, w) IN
  /\ WindowLockFree
  /\ CanCall
  /\ IF vp = NoVault
       THEN /\ calls' = calls
            /\ ret' = Result("info", w, ErrVaultNotFound, NoVault, NoPort, NoValue)
       ELSE /\ calls' = Started(Call("gi_port", "info", w, vp, NoValue, NoToken))
            /\ ret' = NoRet
  /\ UNCHANGED <<windows, nextWin, handles, portsInUse, procs, zombies, doubleFree, spawnFailed, opened>>

\* Slip: a missing port is defaulted instead of reported.
GetCurrentVaultInfoPort_Default(c) ==
  /\ c.pc = "gi_port"
  /\ calls' = Returned(c)
  /\ ret' = Result("info", c.win, "Ok", c.path, EndpointOf(handles, c.win), NoValue)
  /\ UNCHANGED <<windows, nextWin, handles, portsInUse, procs, zombies, doubleFree, spawnFailed, opened>>

\* sidecar_manager.get_ws_port(..).await.ok_or_else(..)?  then
\* Ok(VaultInfo { window_label, vault_path, ws_port }).
GetCurrentVaultInfoPort(c) ==
  LET port == EndpointOf(handles, c.win) IN
  /\ SidecarLockFree
  /\ c.pc = "gi_port"
  /\ calls' = Returned(c)
  /\ ret' = IF port = NoPort
              THEN Result("info", c.win, ErrInfoNoSidecar, NoVault, NoPort, NoValue)
              ELSE Result("info", c.win, "Ok", c.path, port, NoValue)
  /\ UNCHANGED <<windows, nextWin, handles, portsInUse, procs, zombies, doubleFree, spawnFailed, opened>>

\* ------------------------------------------------- the router's commands
Next ==
  \/ \E path \in Paths, ok \in BOOLEAN : OpenVaultPreflight(path, ok)
  \/ \E c \in InFlight, ok \in BOOLEAN : OpenVaultCreateWindow(c, ok)
  \/ \E c \in InFlight : OpenVaultSpawn(c)
  \/ \E c \in InFlight : SpawnLaunch(c)
  \/ \E c \in InFlight : SpawnReady(c)
  \/ \E c \in InFlight : SpawnTimeout(c)
  \/ \E c \in InFlight : SpawnExited(c)
  \/ \E w \in WindowIds, cmd \in Commands : SendToSidecar(w, cmd)
  \/ \E c \in InFlight : SendToSidecarPort(c)
  \/ \E w \in WindowIds : CloseVaultTerminate(w)
  \/ \E c \in InFlight : TerminateFinish(c)
  \/ \E c \in InFlight : TerminateFail(c)
  \/ \E c \in InFlight : CloseVaultRemove(c)
  \/ \E w \in WindowIds : GetCurrentVaultInfoPath(w)
  \/ \E c \in InFlight : GetCurrentVaultInfoPort(c)
  \/ \E w \in WindowIds : WorkerExit(w)
  \/ \E w \in WindowIds : Reap(w)

Spec == Init /\ [][Next]_vars

\* A send_to_sidecar of window w gets its answer from get_ws_port.
SendToSidecarPortOf(w) ==
  \E c \in InFlight : c.win = w /\ SendToSidecarPort(c)

\* The runtime keeps polling a command whose await can complete: the lookup
\* of get_ws_port waits for nothing but the brief lock of the handle map.
FairSpec == Spec /\ \A w \in WindowIds : WF_vars(SendToSidecarPortOf(w))

\* ------------------------------- the supervisor called directly (no router)
SpawnCall(w, path) ==
  /\ CanCall
  /\ SpawnInsert(calls, Call("sp_insert", "spawn", w, path, NoValue, NoToken))

TerminateCall(w) ==
  /\ CanCall
  /\ TerminateBegin(calls, Call("term_begin", "terminate", w, NoVault, NoValue, NoToken))

SupNext ==
  \/ \E w \in WindowIds, path \in Paths : SpawnCall(w, path)
  \/ \E c \in InFlight : SpawnLaunch(c)
  \/ \E c \in InFlight : SpawnReady(c)
  \/ \E c \in InFlight : SpawnTimeout(c)
  \/ \E c \in InFlight : SpawnExited(c)
  \/ \E w \in WindowIds : TerminateCall(w)
  \/ \E c \in InFlight : TerminateFinish(c)
  \/ \E c \in InFlight : TerminateFail(c)
  \/ \E w \in WindowIds : WorkerExit(w)
  \/ \E w \in WindowIds : Reap(w)

SupSpec == Init /\ [][SupNext]_vars

\* The background reaper keeps running: an exit it can observe is observed.
SupFairSpec == SupSpec /\ \A w \in WindowIds : WF_vars(Reap(w))

\* ======================================================== Properties
NoSidecarErrors == {ErrSendNoSidecar, ErrInfoNoSidecar}

\* C1: after any close_vault(W) call has returned, with ok or with a
\* termination error, the window registry holds no entry for W.
C1_CloseAlwaysRemovesWindow ==
  ret.op = "close" => windows[ret.win] = NoVault

\* C2: when the dependency preflight fails, open_vault returns the preflight
\* error and that call creates no window and starts no spawn: the window
\* registry, the handle map, the port pool, the processes and the commands
\* in flight are the same after the call as before it.
C2_PreflightFailureCreatesNothing ==
  [][(ret'.op = "open" /\ ret'.res = ErrPreflight) =>
       /\ ret'.win = NoWindow /\ ret'.port = NoPort
       /\ windows' = windows /\ nextWin' = nextWin
       /\ handles' = handles /\ portsInUse' = portsInUse /\ procs' = procs
       /\ calls' = calls]_vars

C2_Witness ==
  /\ ret.op = "open" /\ ret.res = ErrPreflight
  /\ \E w \in WindowIds : windows[w] # NoVault /\ handles[w].state = "Ready"

\* C3: when open_vault fails at the spawn step the window entry is left as
\* it is, and from then on the window is in a no-sidecar state: its handle
\* is never Ready, and every current_vault_info and send_command for it
\* that returns while the entry remains gives the no-sidecar error, never a
\* success (once a close_vault removed the entry, current_vault_info
\* gives vault-not-found).
NoSidecarState ==
  \A w \in spawnFailed :
    /\ handles[w].state # "Ready"
    /\ (ret.op \in {"send", "info"} /\ ret.win = w) =>
         \/ ret.res \in NoSidecarErrors
         \/ ret.op = "info" /\ ret.res = ErrVaultNotFound /\ windows[w] = NoVault

C3_SpawnFailureLeavesNoSidecarState ==
  [][/\ (ret'.op = "open" /\ ret'.res = ErrSpawn) =>
          (windows' = windows /\ ret'.win \in spawnFailed')
     /\ NoSidecarState']_vars

C3_Witness ==
  /\ ret.op = "info" /\ ret.res = ErrInfoNoSidecar
  /\ ret.win \in spawnFailed /\ windows[ret.win] # NoVault

\* C4: once close_vault(W) has returned ok for a window W that was open when
\* it was called, neither the window registry nor the handle map holds an
\* entry for W, and a current_vault_info(W) called next fails with
\* "Vault not found for this window".
C4_InfoAfterCloseIsVaultNotFound ==
  [][(ret.op = "close" /\ ret.res = "Ok" /\ ret.was = "open") =>
       /\ windows[ret.win] = NoVault
       /\ handles[ret.win] = NoHandle
       /\ (ret'.op = "info" /\ ret'.win = ret.win /\ calls' = calls) =>
             ret'.res = ErrVaultNotFound]_vars

C4_Witness ==
  /\ ret.op = "close" /\ ret.res = "Ok" /\ ret.was = "open"
  /\ \E w \in WindowIds : w # ret.win /\ windows[w] # NoVault

\* C5: a send_command for a window whose handle is not Ready when the
\* command looks it up (no handle, Starting, Terminating or Dead) returns the
\* no-sidecar error and no value.
C5_SendFailsFastWithoutReadySidecar ==
  (ret.op = "send" /\ handles[ret.win].state # "Ready") =>
     (ret.res = ErrSendNoSidecar /\ ret.val = NoValue)

C5_Witness ==
  /\ ret.op = "send" /\ ret.res = ErrSendNoSidecar
  /\ handles[ret.win].state = "Starting"

\* C6: a successful send_command returns the response the worker produced
\* for the request, never a value the worker did not send.
C6_SendReturnsWorkerResponse ==
  (ret.op = "send" /\ ret.res = "Ok") =>
     ret.val \in {WorkerResponse(cmd) : cmd \in Commands}

\* C7: teardown is idempotent.  No port is ever released twice; a
\* close_vault for a window that neither registry holds (never opened, or
\* already closed) returns ok; its terminate step on an absent handle and
\* its remove_window step on an absent entry change nothing.
C7_TeardownIdempotent ==
  [][/\ ~doubleFree'
     /\ (ret'.op = "close" /\ ret'.was = "absent") => ret'.res = "Ok"
     /\ \A w \in WindowIds :
          (CloseVaultTerminate(w) /\ handles[w] = NoHandle) =>
             (handles' = handles /\ portsInUse' = portsInUse /\ procs' = procs
              /\ windows' = windows)
     /\ \A c \in InFlight :
          (CloseVaultRemove(c) /\ c.sub = "Ok" /\ windows[c.win] = NoVault) =>
             (windows' = windows /\ handles' = handles /\ ret'.res = "Ok")]_vars

C7_Witness ==
  /\ ret.op = "close" /\ ret.was = "absent" /\ ret.res = "Ok"
  /\ ret.win < nextWin
  /\ \E w \in WindowIds : windows[w] # NoVault /\ handles[w].state = "Ready"

\* C8: the ports of the handles that are live at the same time (Starting or
\* Ready) are pairwise distinct, each one allocated in the pool.
C8_LivePortsDistinct ==
  \A w1 \in WindowIds, w2 \in WindowIds :
    (w1 # w2 /\ Live(handles[w1]) /\ Live(handles[w2])) =>
       /\ handles[w1].port # handles[w2].port
       /\ handles[w1].port \in portsInUse /\ handles[w2].port \in portsInUse

C8_Witness ==
  \E w1 \in WindowIds, w2 \in WindowIds :
    /\ w1 # w2
    /\ handles[w1].state = "Ready" /\ handles[w2].state = "Ready"
    /\ ret.op = "spawn" /\ ret.res = "Ok" /\ ret.win = w2

\* C9: of the spawn calls for one window_id that run at the same time at
\* most one holds the window's handle, and a spawn that finds a running
\* handle is rejected with AlreadyRunning and changes nothing; a spawn that
\* returns ok leaves a Ready handle with a live worker on the returned
\* port; no window has more than one live worker process and no two
\* workers listen on the same port.
SpawnsHoldingIn(cs, hs, w) ==
  {c \in BagToSet(cs) : c.op = "spawn" /\ c.win = w /\ Mine(c, hs[w])}

SpawnsHolding(w) == SpawnsHoldingIn(calls, handles, w)

C10_EndpointOnlyWhenReady ==
  /\ \A w \in WindowIds :
       (EndpointOf(handles, w) # NoPort) <=> (handles[w].state = "Ready")
  /\ (ret.op \in {"send", "info"} /\ ret.res = "Ok") =>
       /\ handles[ret.win].state = "Ready"
       /\ ret.op = "info" => ret.port = handles[ret.win].port
  /\ (ret.op \in {"send", "info"} /\ ret.res # ErrVaultNotFound
        /\ handles[ret.win].state # "Ready") => ret.res \in NoSidecarErrors

C10_Witness ==
  /\ ret.op = "info" /\ ret.res = ErrInfoNoSidecar
  /\ handles[ret.win].state = "Terminating"

\* C11: a send_to_sidecar that is in flight for a window whose worker is
\* being terminated by close_vault, was terminated, or died (the handle is
\* Terminating, Dead or gone, and will never be Ready again) eventually
\* returns, and the call that returns while the window is in that state
\* returns the no-sidecar error; it never waits and never returns a value.
SendInFlight(w) == \E c \in InFlight : c.op = "send" /\ c.win = w

Closed(w) ==
  \/ handles[w].state \in {"Terminating", "Dead"}
  \/ handles[w].state = "Absent" /\ w < nextWin /\ ~Opening(w)

SendFailed(w) ==
  ret.op = "send" /\ ret.win = w /\ ret.res = ErrSendNoSidecar /\ ret.val = NoValue

C11_SendInFlightFailsOnClose ==
  /\ \A w \in WindowIds : (SendInFlight(w) /\ Closed(w)) ~> SendFailed(w)
  /\ [][\A w \in WindowIds :
          (Closed(w) /\ ret'.op = "send" /\ ret'.win = w) => SendFailed(w)']_vars

C11_Witness ==
  /\ ret.op = "send" /\ ret.was = "ready" /\ ret.res = ErrSendNoSidecar
  /\ windows[ret.win] = NoVault /\ handles[ret.win].state = "Absent"

\* C12: a send_to_sidecar whose worker never responds fails with Timeout: a
\* call that returns without a response of the worker returns the Timeout
\* error (or failed fast with the no-sidecar error), never a success.  The
\* router registers no correlation entry, so none is left pending.
C12_NoResponseIsTimeout ==
  (ret.op = "send" /\ ret.val \notin {WorkerResponse(cmd) : cmd \in Commands}) =>
     ret.res \in {ErrTimeout, ErrSendNoSidecar}

\* C13: open_vault runs preflight, window creation and spawn in that order,
\* each only after the one before succeeded: a failed preflight or a failed
\* window creation ends the command with nothing further done, a window is
\* created only by an open_vault past its preflight, a handle is inserted
\* only by an open_vault for the window it created before.  close_vault
\* terminates first: its terminate steps leave the window registry alone
\* and an entry is removed only by a close_vault whose terminate returned.
C13_StepsInOrder ==
  [][/\ \A path \in Paths :
          OpenVaultPreflight(path, FALSE) => (calls' = calls /\ ret'.res = ErrPreflight)
     /\ (nextWin' # nextWin) =>
          \E c \in InFlight :
            /\ c.op = "open" /\ c.pc = "ov_window"
            /\ windows' = [windows EXCEPT ![nextWin] = c.path]
            /\ calls' = Stepped(c, [c EXCEPT !.pc = "ov_spawn", !.win = nextWin])
            /\ handles' = handles /\ procs' = procs
     /\ (ret'.op = "open" /\ ret'.res = ErrWindow) =>
          (windows' = windows /\ handles' = handles /\ procs' = procs
           /\ BagCardinality(calls') < BagCardinality(calls))
     /\ \A w \in WindowIds :
          /\ (handles'[w].state = "Starting" /\ handles[w].state # "Starting") =>
               /\ w < nextWin
               /\ \E c \in InFlight : c.op = "open" /\ c.pc = "ov_spawn" /\ c.win = w
          /\ (windows[w] # NoVault /\ windows'[w] = NoVault) =>
               \E c \in InFlight :
                 /\ c.op = "close" /\ c.win = w /\ c.pc = "cv_remove"
                 /\ calls' = Returned(c) /\ ret'.op = "close" /\ handles' = handles
          /\ CloseVaultTerminate(w) => windows' = windows
     /\ \A c \in InFlight :
          (c.op = "close" /\ (TerminateFinish(c) \/ TerminateFail(c))) => windows' = windows]_vars

C13_Witness ==
  /\ ret.op = "close" /\ ret.res = "Ok" /\ ret.was = "open"
  /\ handles[ret.win] = NoHandle /\ procs = {}
  /\ nextWin > MaxWindows /\ spawnFailed = {}

\* C14: no command that is suspended holds the guard of a registry's lock.
\* While a command for window A waits on a slow step (process launch,
\* readiness wait, graceful-shutdown wait), the registry operations of a
\* command for another window B can run: create_window, remove_window and
\* endpoint_of of the commands in flight, and vault_path_of of a new
\* get_current_vault_info.
SlowSteps == {"sp_launch", "sp_wait", "term_wait"}

C14_NoLockHeldWhileSuspended ==
  /\ \A c \in InFlight : c.lock = NoValue
  /\ \A c \in InFlight : c.pc \in SlowSteps =>
       /\ \A d \in InFlight : d.win # c.win =>
            /\ (d.pc = "ov_window" /\ nextWin <= MaxWindows) => ENABLED OpenVaultCreateWindow(d, TRUE)
            /\ d.pc = "cv_remove" => ENABLED CloseVaultRemove(d)
            /\ d.pc = "gi_port" => ENABLED GetCurrentVaultInfoPort(d)
            /\ d.pc = "ss_port" => ENABLED SendToSidecarPort(d)
       /\ \A w \in WindowIds \ {c.win} : CanCall => ENABLED GetCurrentVaultInfoPath(w)

C14_Witness ==
  /\ ret.op = "close" /\ ret.res = "Ok" /\ ret.was = "open"
  /\ \E c \in InFlight : c.op = "open" /\ c.pc = "sp_wait" /\ c.win # ret.win

\* C15: every change of the state of a window's handle is one of the table:
\* Starting to Ready, Starting to Dead (spawn timeout or reaper), Starting
\* or Ready to Terminating, Terminating to Dead, Ready to Dead by the
\* reaper only.  A handle never leaves Dead and never moves back: the only
\* other changes are the removal of a Terminating or Dead handle and the
\* insertion, by a spawn call, of a new handle in Starting with a newly
\* allocated port where there was none or a Dead one.
LegalTransitions ==
  {<<"Starting", "Ready">>, <<"Starting", "Dead">>, <<"Starting", "Terminating">>,
   <<"Ready", "Terminating">>, <<"Terminating", "Dead">>, <<"Ready", "Dead">>}

C15_OnlyTableTransitions ==
  [][\A w \in WindowIds :
       LET a == handles[w].state
           b == handles'[w].state
       IN  a # b =>
             /\ \/ <<a, b>> \in LegalTransitions
                \/ a \in {"Terminating", "Dead"} /\ b = "Absent"
                \/ /\ a \in {"Absent", "Dead"} /\ b = "Starting"
                   /\ handles'[w].port \in FreePorts(portsInUse)
                   /\ \E path \in Paths : SpawnCall(w, path)
             /\ (a = "Ready" /\ b = "Dead") => Reap(w)
             /\ (a = "Terminating" /\ b = "Dead") => Reap(w)
             /\ (a = "Starting" /\ b = "Dead") =>
                   (Reap(w) \/ \E c \in InFlight : c.win = w /\ SpawnTimeout(c))]_vars

C15_Witness ==
  /\ ret.op = "spawn" /\ ret.res = "ProcessExited"
  /\ handles[ret.win].state = "Terminating"
  /\ \E p \in Ports : <<ret.win, p>> \in procs

\* C16: when a worker exits on its own, its process is eventually reaped,
\* its handle is no longer live and its port is back in the pool, where a
\* spawn can take it; the reaper's step moves the handle to Dead and
\* releases the port; no port is released twice and a process is either
\* running or waiting to be reaped, never both, also when the exit is
\* observed while a terminate for the window waits.
Running(w, p) ==
  handles[w].state \in {"Starting", "Ready", "Terminating"} /\ handles[w].port = p

C16_ReaperReleasesOnce ==
  /\ \A w \in WindowIds, p \in Ports :
       (<<w, p>> \in zombies) ~>
          (<<w, p>> \notin zombies /\ ~Running(w, p) /\ p \in FreePorts(portsInUse))
  /\ [](~doubleFree /\ procs \cap zombies = {})
  /\ [][\A w \in WindowIds : Reap(w) =>
          /\ handles'[w] = DeadHandle
          /\ handles[w].port \in portsInUse
          /\ handles[w].port \in FreePorts(portsInUse')
          /\ \A q \in Ports : <<w, q>> \notin procs' \cup zombies']_vars

C16_Witness ==
  /\ \E c \in InFlight : c.pc = "term_wait" /\ handles[c.win].state = "Dead"
  /\ zombies = {} /\ procs = {} /\ portsInUse = {}

\* C17: a get_current_vault_info that returns for a window for which
\* open_vault returned a VaultInfo, while no close_vault for the window has
\* started and its worker has not exited, succeeds with the same window
\* label, vault path and port as that VaultInfo.
C17_InfoReturnsWhatOpenReturned ==
  (ret.op = "info" /\ opened[ret.win].op = "open") =>
     /\ ret.res = "Ok"
     /\ ret.win = opened[ret.win].win
     /\ ret.path = opened[ret.win].path
     /\ ret.port = opened[ret.win].port
     /\ ret.path \in Paths /\ ret.port \in Ports

C17_Witness ==
  /\ ret.op = "info" /\ ret.res = "Ok" /\ opened[ret.win].op = "open"
  /\ \E w \in WindowIds : w # ret.win /\ windows[w] # NoVault /\ opened[w] = Void

\* C18: every handle that is Starting, Ready or Terminating belongs to a
\* window that has an entry in the window registry.
C18_LiveHandleHasWindow ==
  \A w \in WindowIds :
    handles[w].state \in {"Starting", "Ready", "Terminating"} => windows[w] # NoVault

\* C19: send_to_sidecar and get_current_vault_info are read-only: none of
\* their steps, whether the command fails or succeeds, changes the window
\* registry, the handle map (handles, states, ports), the port pool or the
\* worker processes.
ReadOnlyStep ==
  \/ \E w \in WindowIds, cmd \in Commands : SendToSidecar(w, cmd)
  \/ \E c \in InFlight : SendToSidecarPort(c)
  \/ \E w \in WindowIds : GetCurrentVaultInfoPath(w)
  \/ \E c \in InFlight : GetCurrentVaultInfoPort(c)

C19_SendAndInfoReadOnly ==
  [][(ReadOnlyStep \/ ret'.op \in {"send", "info"}) =>
       /\ windows' = windows /\ nextWin' = nextWin
       /\ handles' = handles /\ portsInUse' = portsInUse
       /\ procs' = procs /\ zombies' = zombies]_vars

C19_Witness ==
  /\ ret.op = "send" /\ ret.res = "Ok"
  /\ \E c \in InFlight : c.op = "info" /\ c.win = ret.win

\* C20: every step of an open_vault or a close_vault for window W leaves
\* the registry entry (vault path) and the handle (state, port) of every
\* other window as they were, whether the command goes on to succeed or to
\* fail; the window open_vault creates takes an id that had no entry, and
\* the preflight step changes no entry and no handle at all.
OpenCloseStep(w) ==
  \/ \E c \in InFlight :
       /\ c.op \in {"open", "close"} /\ c.win = w
       /\ \/ OpenVaultSpawn(c) \/ SpawnLaunch(c) \/ SpawnReady(c)
          \/ SpawnTimeout(c) \/ SpawnExited(c)
          \/ TerminateFinish(c) \/ TerminateFail(c) \/ CloseVaultRemove(c)
  \/ CloseVaultTerminate(w)
  \/ w = nextWin /\ \E c \in InFlight : OpenVaultCreateWindow(c, TRUE)

OthersUnchanged(w) ==
  \A v \in WindowIds \ {w} : windows'[v] = windows[v] /\ handles'[v] = handles[v]

C20_OpenCloseTouchOwnWindowOnly ==
  [][/\ \A w \in WindowIds : OpenCloseStep(w) => OthersUnchanged(w)
     /\ (nextWin' # nextWin) => windows[nextWin] = NoVault
     /\ ((\E path \in Paths, ok \in BOOLEAN : OpenVaultPreflight(path, ok))
           \/ (\E c \in InFlight : OpenVaultCreateWindow(c, FALSE))) =>
          (windows' = windows /\ handles' = handles)]_vars

C20_Witness ==
  /\ ret.op = "close" /\ ret.res = "Ok" /\ ret.was = "open"
  /\ \E v \in WindowIds :
       v # ret.win /\ windows[v] # NoVault /\ handles[v].state = "Ready"
====
